---- MODULE Spec2Model ----
(***************************************************************************)
(* TC3-HMAC-SHA256 request signing and sending, as implemented by          *)
(* BaseApiRequestFactory (src/tencent_clould_api/api_client/base.py).      *)
(*                                                                         *)
(* Python str values are TLA+ strings, built and taken apart character by  *)
(* character.  hashlib.sha256 and hmac.new are library primitives; they    *)
(* are modelled as ideal (collision-free) hashes whose digest is a term    *)
(* that spells out the hashed input, the raw digest and its hexadecimal    *)
(* form being different terms.                                             *)
(***************************************************************************)
EXTENDS Integers, Sequences, FiniteSets, TLC

\* ------------------------------------------------------------------ bounds
\* Number of send calls issued on the one instance.
NumCalls == 2
\* Number of one-second steps the wall clock may advance.
MaxTicks == 2

\* ----------------------------------------------------------- str helpers
Char(s, i) == SubSeq(s, i, i)

\* Index of the first occurrence of character ch in s at or after i, 0 if none.
RECURSIVE IndexFrom(_, _, _)
IndexFrom(s, ch, i) ==
    IF i > Len(s) THEN 0
    ELSE IF Char(s, i) = ch THEN i
    ELSE IndexFrom(s, ch, i + 1)

\* s.split(ch)
RECURSIVE Split(_, _)
Split(s, ch) ==
    LET i == IndexFrom(s, ch, 1) IN
    IF i = 0 THEN <<s>>
    ELSE <<SubSeq(s, 1, i - 1)>> \o Split(SubSeq(s, i + 1, Len(s)), ch)

\* sep.join(parts)
RECURSIVE Join(_, _)
Join(sep, parts) ==
    IF Len(parts) = 0 THEN ""
    ELSE IF Len(parts) = 1 THEN parts[1]
    ELSE parts[1] \o sep \o Join(sep, Tail(parts))

Upper == "ABCDEFGHIJKLMNOPQRSTUVWXYZ"
Lower == "abcdefghijklmnopqrstuvwxyz"
Digits == "0123456789"

\* The characters of s, as a set and as a tuple.
CharSet(s) == { Char(s, i) : i \in 1..Len(s) }
CharSeq(s) == [ i \in 1..Len(s) |-> Char(s, i) ]

UpperSet == CharSet(Upper)
LowerSeq == CharSeq(Lower)
DigitSeq == CharSeq(Digits)

\* str.lower()
RECURSIVE lower_from(_, _)
lower_from(s, i) ==
    IF i > Len(s) THEN ""
    ELSE LET c == Char(s, i) IN
         (IF c \in UpperSet THEN LowerSeq[IndexFrom(Upper, c, 1)] ELSE c) \o lower_from(s, i + 1)
lower(s) == lower_from(s, 1)

\* str(n) for an int n >= 0
RECURSIVE str(_)
str(n) ==
    IF n < 10 THEN DigitSeq[n + 1]
    ELSE str(n \div 10) \o DigitSeq[(n % 10) + 1]

\* int(s) for a decimal string s
RECURSIVE int_upto(_, _)
int_upto(s, n) ==
    IF n = 0 THEN 0
    ELSE 10 * int_upto(s, n - 1) + (IndexFrom(Digits, Char(s, n), 1) - 1)
int(s) == int_upto(s, Len(s))

\* "%02d" % n
Pad2(n) == IF n < 10 THEN "0" \o str(n) ELSE str(n)

\* ---------------------------------------------------- payload encodings
\* A payload dict is a sequence of items in insertion order; an item is
\* [key, type, ival, sval] with type "int" or "str".
IntItem(k, v) == [key |-> k, type |-> "int", ival |-> v, sval |-> ""]
StrItem(k, v) == [key |-> k, type |-> "str", ival |-> 0, sval |-> v]

\* json.dumps of a str made of printable ASCII other than the quote and the
\* backslash: the text between double quotes.
json_str(s) == "\"" \o s \o "\""

json_item(it) ==
    json_str(it.key) \o ": " \o (IF it.type = "int" THEN str(it.ival) ELSE json_str(it.sval))

\* json.dumps(payload) with the default separators (", " and ": ").
json_dumps(payload) ==
    "{" \o Join(", ", [i \in 1..Len(payload) |-> json_item(payload[i])]) \o "}"

Unreserved == CharSet(Upper \o Lower \o Digits \o "_.-~")

\* urllib.parse.quote_plus for the characters payloads are drawn from.
RECURSIVE quote_plus_from(_, _)
quote_plus_from(s, i) ==
    IF i > Len(s) THEN ""
    ELSE LET c == Char(s, i)
             q == IF c \in Unreserved THEN c
                  ELSE IF c = " " THEN "+"
                  ELSE IF c = "/" THEN "%2F"
                  ELSE IF c = ":" THEN "%3A"
                  ELSE IF c = "=" THEN "%3D"
                  ELSE IF c = "&" THEN "%26"
                  ELSE "%3F"
         IN q \o quote_plus_from(s, i + 1)
quote_plus(s) == quote_plus_from(s, 1)

form_item(it) ==
    quote_plus(it.key) \o "=" \o (IF it.type = "int" THEN str(it.ival) ELSE quote_plus(it.sval))

\* The body requests / aiohttp build for data=<dict>: the urlencoded form.
urlencode(payload) ==
    Join("&", [i \in 1..Len(payload) |-> form_item(payload[i])])

\* ------------------------------------------------------------ UTC date
\* datetime.utcfromtimestamp(t).strftime("%Y-%m-%d") for t >= 0: the proleptic
\* Gregorian date of day t // 86400 since 1970-01-01.
strftime_utc(t) ==
    LET z    == (t \div 86400) + 719468
        era  == z \div 146097
        doe  == z - era * 146097
        yoe  == (doe - (doe \div 1460) + (doe \div 36524) - (doe \div 146096)) \div 365
        doy  == doe - (365 * yoe + (yoe \div 4) - (yoe \div 100))
        mp   == (5 * doy + 2) \div 153
        d    == doy - ((153 * mp + 2) \div 5) + 1
        m    == IF mp < 10 THEN mp + 3 ELSE mp - 9
        y    == yoe + era * 400 + (IF m <= 2 THEN 1 ELSE 0)
    IN str(y) \o "-" \o Pad2(m) \o "-" \o Pad2(d)

\* -------------------------------------------------------- ideal hashes
\* hashlib.sha256(data).hexdigest()
sha256_hexdigest(data) == "hex(SHA256[" \o data \o "])"
\* hmac.new(key, msg, hashlib.sha256).digest() : raw bytes
hmac_digest(key, msg) == "HMAC[" \o key \o "|" \o msg \o "]"
\* bytes.hex()
hex(digest) == "hex(" \o digest \o ")"

\* --------------------------------------------------------------- state
VARIABLES
    self,       \* the instance's attributes (set by __init__ and the subclass)
    clock,      \* the wall clock, time.time() in whole seconds
    epoch,      \* the wall clock when the instance was constructed
    utcoffset,  \* the local time zone's offset from UTC, in seconds
    caller_now, \* per send call: the time its caller had in hand at the call
    frame,      \* per send call: its position and its local variables
    wire        \* the POST requests transmitted so far, in order

vars == <<self, clock, epoch, utcoffset, caller_now, frame, wire>>

Calls == 1..NumCalls

\* ------------------------------------------------- BaseApiRequestFactory
\* __init__: the attributes right after construction of the base class.
init(secret_id, secret_key, region) ==
    [ secret_id |-> secret_id,
      secret_key |-> secret_key,
      region |-> region,
      algorithm |-> "TC3-HMAC-SHA256",
      canonical_uri |-> "/",
      http_request_method |-> "POST",
      canonical_query_string |-> "",
      signed_headers |-> "content-type;host",
      service |-> "",
      host |-> "",
      action |-> "",
      version |-> "",
      content_type |-> "application/json" ]

\* A subclass's __init__ overriding the per-API attributes.
subclass(base, service, host, action, version, content_type) ==
    [ base EXCEPT !.service = service, !.host = host, !.action = action,
                  !.version = version, !.content_type = content_type ]

\* Variant of _canonical_headers: the host line first, keys not in ascending order.
canonical_headers_host_first(obj) ==
    "host:" \o obj.host \o "\ncontent-type:" \o obj.content_type \o "\n"

\* _canonical_headers
canonical_headers(obj) ==
    "content-type:" \o obj.content_type \o "\nhost:" \o obj.host \o "\n"

\* _endpoint
endpoint(obj) == "https://" \o obj.host

\* __sign(key, msg): the HMAC-SHA256 object, identified with its raw digest.
sign(key, msg) == hmac_digest(key, msg)

\* __generate_authorization, first part: the canonical request.
canonical_request(obj, payload) ==
    obj.http_request_method \o "\n"
    \o obj.canonical_uri \o "\n"
    \o obj.canonical_query_string \o "\n"
    \o canonical_headers(obj) \o "\n"
    \o obj.signed_headers \o "\n"
    \o sha256_hexdigest(payload)

\* Variant of now_date: datetime.fromtimestamp, the date in the local zone.
now_date_local(timestamp) == strftime_utc(timestamp + utcoffset)

\* now_date = datetime.utcfromtimestamp(timestamp).strftime("%Y-%m-%d")
now_date(timestamp) == strftime_utc(timestamp)

\* credential_scope
credential_scope(obj, date) == date \o "/" \o obj.service \o "/" \o "tc3_request"

\* signature_content, the string to sign
signature_content(obj, timestamp, scope, request) ==
    obj.algorithm \o "\n"
    \o str(timestamp) \o "\n"
    \o scope \o "\n"
    \o sha256_hexdigest(request)

\* Variant of the chain: each link keyed by the previous link's hexdigest().
signature_hex_keys(obj, date, content) ==
    LET secret_date    == hex(sign("TC3" \o obj.secret_key, date))
        secret_service == hex(sign(secret_date, obj.service))
        secret_signing == hex(sign(secret_service, "tc3_request"))
    IN hex(sign(secret_signing, content))

\* The key derivation chain and the signature.
signature(obj, date, content) ==
    LET secret_date    == sign("TC3" \o obj.secret_key, date)
        secret_service == sign(secret_date, obj.service)
        secret_signing == sign(secret_service, "tc3_request")
    IN hex(sign(secret_signing, content))

\* __generate_authorization(timestamp, payload): its local variables and the
\* string it returns (authorization).
generate_authorization(obj, timestamp, payload) ==
    LET request == canonical_request(obj, payload)
        date    == now_date(timestamp)
        scope   == credential_scope(obj, date)
        content == signature_content(obj, timestamp, scope, request)
        sig     == signature(obj, date, content)
    IN [ canonical_request |-> request,
         signature_content |-> content,
         authorization |->
             obj.algorithm \o " Credential=" \o obj.secret_id \o "/" \o scope \o ", "
             \o "SignedHeaders=" \o obj.signed_headers \o ", Signature=" \o sig ]

\* Variant of the dict: X-TC-Timestamp from a second time.time().
make_headers_second_clock_read(obj, auth, timestamp) ==
    ("Authorization" :> auth.authorization)
    @@ ("Content-Type" :> obj.content_type)
    @@ ("Host" :> obj.host)
    @@ ("X-TC-Action" :> obj.action)
    @@ ("X-TC-Timestamp" :> str(clock))
    @@ ("X-TC-Version" :> obj.version)
    @@ ("X-TC-Region" :> obj.region)
    @@ ("X-TC-Language" :> "zh-CN")

\* Variant of the dict: Host carries the endpoint URL, not the signed host.
make_headers_endpoint_host(obj, auth, timestamp) ==
    ("Authorization" :> auth.authorization)
    @@ ("Content-Type" :> obj.content_type)
    @@ ("Host" :> endpoint(obj))
    @@ ("X-TC-Action" :> obj.action)
    @@ ("X-TC-Timestamp" :> str(timestamp))
    @@ ("X-TC-Version" :> obj.version)
    @@ ("X-TC-Region" :> obj.region)
    @@ ("X-TC-Language" :> "zh-CN")

\* __make_headers after the clock read: the dict it returns, auth being the
\* locals of the __generate_authorization call made for its first entry.
make_headers(obj, auth, timestamp) ==
    ("Authorization" :> auth.authorization)
    @@ ("Content-Type" :> obj.content_type)
    @@ ("Host" :> obj.host)
    @@ ("X-TC-Action" :> obj.action)
    @@ ("X-TC-Timestamp" :> str(timestamp))
    @@ ("X-TC-Version" :> obj.version)
    @@ ("X-TC-Region" :> obj.region)
    @@ ("X-TC-Language" :> "zh-CN")

\* The body requests.post / session.post transmit: json=payload is
\* json.dumps(payload) in UTF-8, data=payload is the urlencoded form.
request_body(obj, payload) ==
    IF obj.content_type = "application/json" THEN json_dumps(payload)
    ELSE urlencode(payload)

\* A value of response.json() carries its Python type, so that no value of one
\* type equals a value of another: None is no dict, whatever the dict's keys.
None == [ type |-> "NoneType" ]
DictValue(items) == [ type |-> "dict", items |-> items ]
StrValue(chars) == [ type |-> "str", chars |-> chars ]
IntValue(num) == [ type |-> "int", num |-> num ]
BoolValue(truth) == [ type |-> "bool", truth |-> truth ]
ListValue(elems) == [ type |-> "list", elems |-> elems ]
EmptyDict == DictValue(<<>>)

\* How an evaluation ends: with a value, or with an exception that leaves the
\* method at once.
Return(value) == [ outcome |-> "return", value |-> value ]
Raise(exception) == [ outcome |-> "raise", exception |-> exception ]

AttributeError == [ type |-> "AttributeError" ]
TypeError == [ type |-> "TypeError" ]
KeyError(key) == [ type |-> "KeyError", key |-> key ]

\* v.get(key): only a dict has the attribute; it gives the value or None.
dict_get(v, key) ==
    IF v.type = "dict"
    THEN Return(IF key \in DOMAIN v.items THEN v.items[key] ELSE None)
    ELSE Raise(AttributeError)

\* v[key] for a str key: a dict gives the value or KeyError, a str or a list
\* wants an integer index, the other types have no subscript.
getitem(v, key) ==
    IF v.type = "dict"
    THEN IF key \in DOMAIN v.items THEN Return(v.items[key]) ELSE Raise(KeyError(key))
    ELSE Raise(TypeError)

\* Python truth of a value.
Truthy(v) ==
    IF v.type = "NoneType" THEN FALSE
    ELSE IF v.type = "dict" THEN DOMAIN v.items # {}
    ELSE IF v.type = "str" THEN v.chars # ""
    ELSE IF v.type = "int" THEN v.num # 0
    ELSE IF v.type = "bool" THEN v.truth
    ELSE Len(v.elems) # 0

TencentCloudSDKException(code, message, request_id) ==
    [ type |-> "TencentCloudSDKException",
      code |-> code, message |-> message, requestId |-> request_id ]

\* send_request, after the POST: the outcome for the value of response.json().
send_request_result(json) ==
    LET response == dict_get(json, "Response") IN
    IF response.outcome = "raise" THEN response
    ELSE LET data  == response.value
             error == dict_get(data, "Error")
         IN IF error.outcome = "raise" THEN error
            ELSE IF ~Truthy(error.value) THEN Return(data)
            ELSE LET code       == getitem(getitem(data, "Error").value, "Code")
                     message    == getitem(getitem(data, "Error").value, "Message")
                     request_id == getitem(data, "RequestId")
                 IN IF code.outcome = "raise" THEN code
                    ELSE IF message.outcome = "raise" THEN message
                    ELSE IF request_id.outcome = "raise" THEN request_id
                    ELSE Raise(TencentCloudSDKException(code.value, message.value,
                                                        request_id.value))

\* send_async_request, after the POST: the outcome for the value of
\* await response.json().
send_async_request_result(json) ==
    LET response == dict_get(json, "Response") IN
    IF response.outcome = "raise" THEN response
    ELSE LET data  == response.value
             error == dict_get(data, "Error")
         IN IF error.outcome = "raise" THEN error
            ELSE IF ~Truthy(error.value) THEN Return(data)
            ELSE LET code       == getitem(getitem(data, "Error").value, "Code")
                     message    == getitem(getitem(data, "Error").value, "Message")
                     request_id == getitem(data, "RequestId")
                 IN IF code.outcome = "raise" THEN code
                    ELSE IF message.outcome = "raise" THEN message
                    ELSE IF request_id.outcome = "raise" THEN request_id
                    ELSE Raise(TencentCloudSDKException(code.value, message.value,
                                                        request_id.value))

\* requests / aiohttp refuse a URL without a host before connecting.
InvalidURL == Raise([ type |-> "InvalidURL" ])

\* ------------------------------------------------------------- inputs
Base == init("AKIDEXAMPLE", "Gu5t9xGARNpq86cd98joQYCN3EXAMPLE", "ap-guangzhou")

Instances ==
    { Base,
      subclass(Base, "cvm", "cvm.tencentcloudapi.com", "DescribeInstances",
               "2017-03-12", "application/json"),
      subclass(Base, "cvm", "cvm.tencentcloudapi.com", "DescribeInstances",
               "2017-03-12", "multipart/form-data"),
      subclass(Base, "", "cvm.tencentcloudapi.com", "DescribeInstances",
               "2017-03-12", "application/json") }

Payloads ==
    { <<IntItem("Limit", 10), IntItem("Offset", 0)>>,
      <<StrItem("Zone", "ap-guangzhou-3")>> }

\* 2023-12-31T23:59:58Z, two seconds before the UTC day (and year) changes.
Epochs == { 1704067198 }

UtcOffsets == { 0, 28800 }

\* The JSON values a POST can be answered with: a result, an empty Response,
\* an Error with its RequestId, an Error without one, an Error that is a bare
\* string, an answer without a Response (a gateway's), and null.
Envelopes ==
    { DictValue([ Response |-> DictValue([ TotalCount |-> IntValue(0), RequestId |-> StrValue("req-ok") ]) ]),
      DictValue([ Response |-> EmptyDict ]),
      DictValue([ Response |->
               DictValue([ Error |-> DictValue([ Code |-> StrValue("AuthFailure.SignatureExpire"),
                                       Message |-> StrValue("The signature is expired.") ]),
                      RequestId |-> StrValue("req-expired") ]) ]),
      DictValue([ Response |->
               DictValue([ Error |-> DictValue([ Code |-> StrValue("AuthFailure.SignatureFailure"),
                                       Message |-> StrValue("The signature is wrong.") ]) ]) ]),
      DictValue([ Response |->
               DictValue([ Error |-> StrValue("InternalError"), RequestId |-> StrValue("req-str") ]) ]),
      DictValue([ message |-> StrValue("Bad Gateway") ]),
      None }

Kinds == { "send_request", "send_async_request" }

\* Among concurrent calls the odd ones are threads calling send_request, the
\* even ones tasks awaiting send_async_request.
Kind(c) == IF c % 2 = 1 THEN "send_request" ELSE "send_async_request"

Idle == [ pc |-> "idle" ]

\* ------------------------------------------------------------- actions
Init ==
    /\ self \in Instances
    /\ epoch \in Epochs
    /\ clock = epoch
    /\ utcoffset \in UtcOffsets
    /\ caller_now = [ c \in Calls |-> 0 ]
    /\ frame = [ c \in Calls |-> Idle ]
    /\ wire = {}

\* One second passes.
Tick ==
    /\ clock < epoch + MaxTicks
    /\ clock' = clock + 1
    /\ UNCHANGED <<self, epoch, utcoffset, caller_now, frame, wire>>

\* A caller invokes send_request(payload) (odd calls) or
\* send_async_request(payload) (even calls).
Call(c) ==
    /\ frame[c].pc = "idle"
    /\ \A d \in Calls : d < c => frame[d].pc # "idle"
    /\ \E payload \in Payloads :
          frame' = [ frame EXCEPT ![c] =
                       [ pc |-> "make_headers", kind |-> Kind(c), payload |-> payload ] ]
    /\ UNCHANGED <<self, clock, epoch, utcoffset, caller_now, wire>>

\* __make_headers: timestamp = int(time.time())
ReadClock(c) ==
    /\ frame[c].pc = "make_headers"
    /\ frame' = [ frame EXCEPT ![c] =
                    [ pc |-> "build", kind |-> frame[c].kind, payload |-> frame[c].payload,
                      timestamp |-> clock ] ]
    /\ UNCHANGED <<self, clock, epoch, utcoffset, caller_now, wire>>

\* Variant of BuildHeaders: the payload is kept in an attribute of the instance
\* that every call overwrites, so the latest call's payload is the one signed.
BuildHeadersSharedPayload(c) ==
    /\ frame[c].pc = "build"
    /\ LET held == { d \in Calls : "payload" \in DOMAIN frame[d] }
           last == CHOOSE d \in held : \A e \in held : e <= d
           auth == generate_authorization(self, frame[c].timestamp,
                                          json_dumps(frame[last].payload))
       IN frame' = [ frame EXCEPT ![c] =
                       [ pc |-> "post", kind |-> frame[c].kind, payload |-> frame[c].payload,
                         timestamp |-> frame[c].timestamp, auth |-> auth,
                         headers |-> make_headers(self, auth, frame[c].timestamp) ] ]
    /\ UNCHANGED <<self, clock, epoch, utcoffset, caller_now, wire>>

\* __make_headers: the dict is built, __generate_authorization being called
\* with the timestamp read and json.dumps(payload).
BuildHeaders(c) ==
    /\ frame[c].pc = "build"
    /\ LET auth == generate_authorization(self, frame[c].timestamp,
                                          json_dumps(frame[c].payload))
       IN frame' = [ frame EXCEPT ![c] =
                       [ pc |-> "post", kind |-> frame[c].kind, payload |-> frame[c].payload,
                         timestamp |-> frame[c].timestamp, auth |-> auth,
                         headers |-> make_headers(self, auth, frame[c].timestamp) ] ]
    /\ UNCHANGED <<self, clock, epoch, utcoffset, caller_now, wire>>

\* The request a call puts on the wire.
Request(c) ==
    [ call |-> c, url |-> endpoint(self), headers |-> frame[c].headers,
      body |-> request_body(self, frame[c].payload) ]

\* The POST of either send method: transmitted, or refused for want of a host
\* (the call then ends with the library's exception, its locals gone).
Post(c) ==
    IF self.host = ""
    THEN /\ frame' = [ frame EXCEPT ![c] =
                         [ pc |-> "done", kind |-> frame[c].kind, posted |-> FALSE,
                           result |-> InvalidURL ] ]
         /\ UNCHANGED wire
    ELSE /\ frame' = [ frame EXCEPT ![c] = [ @ EXCEPT !.pc = "wait" ] ]
         /\ wire' = wire \cup { Request(c) }

\* send_request: requests.post(...)
SendRequestPost(c) ==
    /\ frame[c].pc = "post"
    /\ frame[c].kind = "send_request"
    /\ Post(c)
    /\ UNCHANGED <<self, clock, epoch, utcoffset, caller_now>>

\* send_async_request: session.post(...)
SendAsyncRequestPost(c) ==
    /\ frame[c].pc = "post"
    /\ frame[c].kind = "send_async_request"
    /\ Post(c)
    /\ UNCHANGED <<self, clock, epoch, utcoffset, caller_now>>

\* The call ends: its request is off the wire, its locals are gone, and the
\* caller holds the outcome for the envelope the server sent.
Finish(c, envelope, result) ==
    /\ frame' = [ frame EXCEPT ![c] =
                    [ pc |-> "done", kind |-> frame[c].kind, posted |-> TRUE,
                      response |-> envelope, result |-> result ] ]
    /\ wire' = { w \in wire : w.call # c }

\* send_request: the server's envelope arrives and is turned into the outcome.
SendRequestFinish(c) ==
    /\ frame[c].pc = "wait"
    /\ frame[c].kind = "send_request"
    /\ \E envelope \in Envelopes : Finish(c, envelope, send_request_result(envelope))
    /\ UNCHANGED <<self, clock, epoch, utcoffset, caller_now>>

\* send_async_request: the server's envelope arrives and is turned into the outcome.
SendAsyncRequestFinish(c) ==
    /\ frame[c].pc = "wait"
    /\ frame[c].kind = "send_async_request"
    /\ \E envelope \in Envelopes : Finish(c, envelope, send_async_request_result(envelope))
    /\ UNCHANGED <<self, clock, epoch, utcoffset, caller_now>>

Next ==
    \/ Tick
    \/ \E c \in Calls : Call(c)
    \/ \E c \in Calls : ReadClock(c)
    \/ \E c \in Calls : BuildHeaders(c)
    \/ \E c \in Calls : SendRequestPost(c)
    \/ \E c \in Calls : SendAsyncRequestPost(c)
    \/ \E c \in Calls : SendRequestFinish(c)
    \/ \E c \in Calls : SendAsyncRequestFinish(c)

Spec == Init /\ [][Next]_vars

\* One call alone, of either send method.
CallSolo ==
    /\ frame[1].pc = "idle"
    /\ \E kind \in Kinds, payload \in Payloads :
          frame' = [ frame EXCEPT ![1] =
                       [ pc |-> "make_headers", kind |-> kind, payload |-> payload ] ]
    /\ UNCHANGED <<self, clock, epoch, utcoffset, caller_now, wire>>

NextSolo ==
    \/ Tick
    \/ CallSolo
    \/ ReadClock(1)
    \/ BuildHeaders(1)
    \/ SendRequestPost(1)
    \/ SendAsyncRequestPost(1)
    \/ SendRequestFinish(1)
    \/ SendAsyncRequestFinish(1)

SpecSolo == Init /\ [][NextSolo]_vars

\* Call, with the caller's clock at the call noted. The time is no argument of
\* send_request(payload) or send_async_request(payload): it stays with the
\* caller, and the call's frame is as in Call.
CallNoting(c) ==
    /\ frame[c].pc = "idle"
    /\ \A d \in Calls : d < c => frame[d].pc # "idle"
    /\ \E payload \in Payloads :
          frame' = [ frame EXCEPT ![c] =
                       [ pc |-> "make_headers", kind |-> Kind(c), payload |-> payload ] ]
    /\ caller_now' = [ caller_now EXCEPT ![c] = clock ]
    /\ UNCHANGED <<self, clock, epoch, utcoffset, wire>>

NextCaller ==
    \/ Tick
    \/ \E c \in Calls : CallNoting(c)
    \/ \E c \in Calls : ReadClock(c)
    \/ \E c \in Calls : BuildHeaders(c)
    \/ \E c \in Calls : SendRequestPost(c)
    \/ \E c \in Calls : SendAsyncRequestPost(c)
    \/ \E c \in Calls : SendRequestFinish(c)
    \/ \E c \in Calls : SendAsyncRequestFinish(c)

SpecCaller == Init /\ [][NextCaller]_vars

\* ------------------------------------------------------------- reading
\* The call has built its headers.
Built(c) == frame[c].pc \in { "post", "wait" }
\* The call has transmitted its POST and awaits the response.
Posted(c) == frame[c].pc = "wait"

\* The lines of a multi-line str.
Lines(s) == Split(s, "\n")

\* The first n pieces of s.split(ch), found without reading past them.
RECURSIVE SplitFirst(_, _, _, _)
SplitFirst(s, ch, from, n) ==
    IF n = 0 THEN <<>>
    ELSE LET i == IndexFrom(s, ch, from) IN
         IF i = 0 THEN <<SubSeq(s, from, Len(s))>>
         ELSE <<SubSeq(s, from, i - 1)>> \o SplitFirst(s, ch, i + 1, n - 1)

\* The parts of an Authorization value,
\*   <algorithm> Credential=<c>, SignedHeaders=<h>, Signature=<s>
\* read from left to right: each value starts after the next "=" and the
\* first two end before the next ",".
AuthorizationParts(authorization) ==
    LET i1 == IndexFrom(authorization, "=", 1) + 1
        j1 == IndexFrom(authorization, ",", i1)
        i2 == IndexFrom(authorization, "=", j1) + 1
        j2 == IndexFrom(authorization, ",", i2)
        i3 == IndexFrom(authorization, "=", j2) + 1
    IN [ algorithm      |-> SubSeq(authorization, 1, IndexFrom(authorization, " ", 1) - 1),
         credential     |-> SubSeq(authorization, i1, j1 - 1),
         signed_headers |-> SubSeq(authorization, i2, j2 - 1),
         signature      |-> SubSeq(authorization, i3, Len(authorization)) ]

\* The Authorization value made of such parts.
AuthorizationOf(parts) ==
    parts.algorithm \o " Credential=" \o parts.credential
    \o ", SignedHeaders=" \o parts.signed_headers
    \o ", Signature=" \o parts.signature

\* The characters header keys are made of, in ASCII code order, and the order
\* it gives to strs.
Ascii == "-0123456789" \o Upper \o "_" \o Lower
Ord(ch) == IndexFrom(Ascii, ch, 1)

RECURSIVE StrLess(_, _)
StrLess(a, b) ==
    IF Len(b) = 0 THEN FALSE
    ELSE IF Len(a) = 0 THEN TRUE
    ELSE IF Char(a, 1) = Char(b, 1)
         THEN StrLess(SubSeq(a, 2, Len(a)), SubSeq(b, 2, Len(b)))
    ELSE Ord(Char(a, 1)) < Ord(Char(b, 1))

\* Of the lines ls of a canonical request: the header lines of its
\* CanonicalHeaders block, its SignedHeaders line, its HashedRequestPayload line.
CanonicalHeaderLines(ls) == SubSeq(ls, 4, Len(ls) - 3)
SignedHeadersLine(ls) == ls[Len(ls) - 1]
HashedRequestPayload(ls) == ls[Len(ls)]
HeaderKey(line) == SubSeq(line, 1, IndexFrom(line, ":", 1) - 1)
HeaderValue(line) == SubSeq(line, IndexFrom(line, ":", 1) + 1, Len(line))
CanonicalKeys(ls) ==
    LET hs == CanonicalHeaderLines(ls) IN [ i \in 1..Len(hs) |-> HeaderKey(hs[i]) ]
\* The value the header lines hs give for a key ("" if they have none).
RECURSIVE ValueIn(_, _)
ValueIn(hs, key) ==
    IF Len(hs) = 0 THEN ""
    ELSE IF HeaderKey(hs[1]) = key THEN HeaderValue(hs[1])
    ELSE ValueIn(Tail(hs), key)

\* The reference signature chain of the signing scheme.
RefSignature(secret_key, date, service, string_to_sign) ==
    LET k_date    == hmac_digest("TC3" \o secret_key, date)
        k_service == hmac_digest(k_date, service)
        k_signing == hmac_digest(k_service, "tc3_request")
    IN hex(hmac_digest(k_signing, string_to_sign))

\* The reference string to sign.
RefStringToSign(algorithm_id, timestamp, scope, request) ==
    Join("\n", <<algorithm_id, str(timestamp), scope, sha256_hexdigest(request)>>)

\* The reference Authorization value for a payload's bytes and a timestamp.
RefAuthorization(obj, timestamp, payload_bytes) ==
    LET request == Join("\n", << "POST", "/", "",
                                 "content-type:" \o obj.content_type,
                                 "host:" \o obj.host, "",
                                 "content-type;host", sha256_hexdigest(payload_bytes) >>)
        date    == strftime_utc(timestamp)
        scope   == Join("/", <<date, obj.service, "tc3_request">>)
    IN "TC3-HMAC-SHA256 Credential=" \o obj.secret_id \o "/" \o scope
       \o ", SignedHeaders=content-type;host, Signature="
       \o RefSignature(obj.secret_key, date, obj.service,
                       RefStringToSign("TC3-HMAC-SHA256", timestamp, scope, request))

\* ------------------------------------------------------------- claims
\* (A value that is parsed once and read several times is bound by a
\* quantifier over its singleton set.)

\* C1: for every request on the wire, the bytes whose SHA-256 is the
\* HashedRequestPayload of the call's canonical request are the body bytes the
\* POST of that call transmits (for send_request and send_async_request, for
\* application/json and for the form content type).
C1HashedIsTransmitted ==
    \A w \in wire :
        HashedRequestPayload(Lines(frame[w.call].auth.canonical_request))
            = sha256_hexdigest(w.body)

\* C2: in every header map produced one timestamp is used throughout: the
\* X-TC-Timestamp header is the timestamp line of the string to sign, which is
\* the value the call read from the clock; the date of the credential scope,
\* in the string to sign and in the Authorization value, is the UTC date of
\* that same timestamp; and the Authorization carries the signature of that
\* string to sign.
C2SingleTimestamp ==
    \A c \in Calls : Built(c) =>
        \A sts \in { SplitFirst(frame[c].auth.signature_content, "\n", 1, 3) } :
        \A date \in { SplitFirst(sts[3], "/", 1, 1)[1] } :
        \A authz \in { AuthorizationParts(frame[c].headers["Authorization"]) } :
           /\ frame[c].headers["X-TC-Timestamp"] = sts[2]
           /\ sts[2] = str(frame[c].timestamp)
           /\ date = strftime_utc(int(sts[2]))
           /\ authz.credential = self.secret_id \o "/" \o sts[3]
           /\ authz.signature =
                  RefSignature(self.secret_key, date, self.service,
                               frame[c].auth.signature_content)

\* A call built its headers from a timestamp the clock has since moved past.
C2Witness ==
    \E c \in Calls : Built(c) /\ frame[c].timestamp < clock

\* C3: the header-producing operation takes the time from its caller and reads
\* no clock itself: every header map is built from the time T its caller had at
\* the call, and two header maps produced for the same payload P and the same
\* caller's time T are identical.
C3FunctionOfSuppliedInputs ==
    /\ \A c \in Calls : Built(c) => frame[c].timestamp = caller_now[c]
    /\ \A c, d \in Calls :
          (Built(c) /\ Built(d) /\ frame[c].payload = frame[d].payload
              /\ caller_now[c] = caller_now[d])
              => frame[c].headers = frame[d].headers

\* C4: with an empty host or service in the descriptor no hashing is performed
\* (no call gets as far as its headers) and no request is transmitted.
C4FailsBeforeHashing ==
    (self.host = "" \/ self.service = "")
        => /\ \A c \in Calls : ~Built(c)
           /\ wire = {}

\* C5: for both send methods and every envelope the server returns: if the
\* Response holds an Error, the call raises TencentCloudSDKException with the
\* server's Error.Code, Error.Message and RequestId, and no other failure;
\* otherwise it returns the Response object unchanged.
C5EnvelopeOutcome ==
    \A c \in Calls : (frame[c].pc = "done" /\ frame[c].posted) =>
        \A data \in { IF frame[c].response.type = "dict"
                         /\ "Response" \in DOMAIN frame[c].response.items
                      THEN frame[c].response.items["Response"] ELSE None } :
        IF data.type = "dict" /\ "Error" \in DOMAIN data.items
        THEN \A error \in { data.items["Error"] } :
             /\ frame[c].result.outcome = "raise"
             /\ frame[c].result.exception.type = "TencentCloudSDKException"
             /\ (error.type = "dict" /\ "Code" \in DOMAIN error.items)
                   => frame[c].result.exception.code = error.items["Code"]
             /\ (error.type = "dict" /\ "Message" \in DOMAIN error.items)
                   => frame[c].result.exception.message = error.items["Message"]
             /\ "RequestId" \in DOMAIN data.items
                   => frame[c].result.exception.requestId = data.items["RequestId"]
        ELSE /\ frame[c].result.outcome = "return"
             /\ frame[c].result.value = data

\* C6: in every canonical request the SignedHeaders line is the keys of the
\* CanonicalHeaders block joined by semicolons, the keys being lower case and
\* in ascending ASCII order and including content-type and host; and the
\* Authorization value carries the same SignedHeaders.
C6SignedHeadersMatch ==
    \A c \in Calls : Built(c) =>
        \A ls \in { Lines(frame[c].auth.canonical_request) } :
        \A keys \in { CanonicalKeys(ls) } :
        \A authz \in { AuthorizationParts(frame[c].headers["Authorization"]) } :
           /\ SignedHeadersLine(ls) = Join(";", keys)
           /\ \A i \in 1..Len(keys) : keys[i] = lower(keys[i])
           /\ \A i \in 1..(Len(keys) - 1) : StrLess(keys[i], keys[i + 1])
           /\ { "content-type", "host" } \subseteq { keys[i] : i \in 1..Len(keys) }
           /\ authz.signed_headers = SignedHeadersLine(ls)
           /\ AuthorizationOf(authz) = frame[c].headers["Authorization"]

\* A canonical request was built for the form content type.
C6Witness ==
    \E c \in Calls : Built(c) /\ self.content_type = "multipart/form-data"

\* C7: the signature in the Authorization value is the reference chain
\* (date, service, tc3_request, string to sign; each link keyed by the raw
\* digest of the one before) over the string to sign made of the algorithm id,
\* the timestamp, the credential scope and the hashed canonical request.
C7ReferenceChain ==
    \A c \in Calls : Built(c) =>
        \A date \in { strftime_utc(frame[c].timestamp) } :
        \A scope \in { Join("/", <<date, self.service, "tc3_request">>) } :
           AuthorizationParts(frame[c].headers["Authorization"]).signature =
               RefSignature(self.secret_key, date, self.service,
                            RefStringToSign("TC3-HMAC-SHA256", frame[c].timestamp, scope,
                                            frame[c].auth.canonical_request))

\* A signature was computed for a named service and a payload of two entries.
C7Witness ==
    \E c \in Calls : Built(c) /\ self.service = "cvm" /\ Len(frame[c].payload) = 2

\* C8: every header map has exactly the eight keys, and its Content-Type and
\* Host are the content-type and host values of the signed CanonicalHeaders.
C8HeaderMap ==
    \A c \in Calls : Built(c) =>
        \A hs \in { CanonicalHeaderLines(Lines(frame[c].auth.canonical_request)) } :
        /\ DOMAIN frame[c].headers =
               { "Authorization", "Content-Type", "Host", "X-TC-Action", "X-TC-Timestamp",
                 "X-TC-Version", "X-TC-Region", "X-TC-Language" }
        /\ frame[c].headers["Content-Type"] = ValueIn(hs, "content-type")
        /\ frame[c].headers["Host"] = ValueIn(hs, "host")

\* A header map for a named host was transmitted.
C8Witness ==
    \E w \in wire : w.headers["Host"] = "cvm.tencentcloudapi.com"

\* The date of the credential scope in an Authorization value: the ten
\* characters YYYY-MM-DD that follow "<algorithm> Credential=<secret id>/",
\* and "" if the value does not start so.
ScopeDate(authorization) ==
    LET lead == self.algorithm \o " Credential=" \o self.secret_id \o "/" IN
    IF Len(authorization) >= Len(lead) + 10
       /\ SubSeq(authorization, 1, Len(lead)) = lead
    THEN SubSeq(authorization, Len(lead) + 1, Len(lead) + 10)
    ELSE ""

\* C9: the credential-scope date is the UTC date of the timestamp whatever the
\* local zone: 2023-12-31T23:59:59Z gives the date 2023-12-31 and the next
\* second 2024-01-01; two header maps carry the same date exactly when their
\* timestamps lie in the same UTC day, and maps of different UTC days carry
\* different signatures.
C9UtcDate ==
    \A c \in Calls : Built(c) =>
        \A ac \in { frame[c].headers["Authorization"] } :
        \A dc \in { ScopeDate(ac) } :
        \A tc \in { frame[c].timestamp } :
           /\ Len(dc) = 10
           /\ tc = 1704067199 => dc = "2023-12-31"
           /\ tc = 1704067200 => dc = "2024-01-01"
           /\ \A d \in Calls : (c < d /\ Built(d)) =>
                 \A ad \in { frame[d].headers["Authorization"] } :
                 \A td \in { frame[d].timestamp } :
                    /\ (dc = ScopeDate(ad)) <=> (tc \div 86400 = td \div 86400)
                    /\ (tc \div 86400 # td \div 86400)
                          => AuthorizationParts(ac).signature
                                # AuthorizationParts(ad).signature

\* The same payload was signed at 23:59:59Z and one second later, in a local
\* zone ahead of UTC.
C9Witness ==
    \E c, d \in Calls :
        /\ Built(c) /\ Built(d)
        /\ frame[c].payload = frame[d].payload
        /\ frame[c].timestamp = 1704067199 /\ frame[d].timestamp = 1704067200
        /\ utcoffset # 0

\* C10: under every interleaving of the calls' steps no step changes the
\* instance's attributes, and every request a step transmits carries the
\* X-TC-Timestamp and the Authorization of that call's own timestamp and own
\* payload.
C10OwnHeaders ==
    [][ /\ self' = self
        /\ \A w \in wire' \ wire :
              /\ w.headers["X-TC-Timestamp"] = str(frame[w.call].timestamp)
              /\ w.headers["Authorization"] =
                     RefAuthorization(self, frame[w.call].timestamp,
                                      json_dumps(frame[w.call].payload)) ]_vars

\* Two calls with different payloads and different timestamps have both
\* transmitted, the later-invoked one having read the clock first.
C10Witness ==
    \E c, d \in Calls :
        /\ c < d /\ Posted(c) /\ Posted(d)
        /\ frame[c].payload # frame[d].payload
        /\ frame[d].timestamp < frame[c].timestamp

====
